---- MODULE Spec2Model ----
(***************************************************************************)
(* opusmeta: reading and rewriting the comment header of an Opus stream    *)
(* framed as Ogg, and the METADATA_BLOCK_PICTURE codec.                    *)
(*                                                                         *)
(* Strings and byte vectors are sequences of byte values 0..255.  A       *)
(* string is its UTF-8 encoding, as in Rust.  The element Huge stands for  *)
(* a run of 2^32 bytes: a vector holding it is longer than u32::MAX, and   *)
(* every vector without it is far shorter.                                 *)
(***************************************************************************)
EXTENDS Integers, Sequences, FiniteSets, TLC

VARIABLES
    tag,        \* the Tag: [vendor, comments], comments a map key -> list of values
    last,       \* the last operation applied to the Tag, its arguments and result
    target,     \* the StorageFile handed to write_to: its bytes, its position and
                \* the seek, set_len and write calls made on it
    target0,    \* the target's bytes when write_to was called
    wpc,        \* position inside write_to
    npackets,   \* number of packets write_to has read from the target
    f_out_raw,  \* write_to's in-memory output buffer
    writer,     \* the PacketWriter's state: packets of the page being assembled
    wres,       \* write_to's result
    rres,       \* result of Tag::read_from on the target after write_to
    pic,        \* a Picture given to the picture codec
    pstage,     \* what pval holds: "new", "bytes", "decoded", "base64", "decoded64"
    pval        \* the codec's last result

vars == <<tag, last, target, target0, wpc, npackets, f_out_raw, writer, wres, rres,
          pic, pstage, pval>>

tagVars == <<tag, last>>
ioVars  == <<target, target0, wpc, npackets, f_out_raw, writer, wres, rres>>
picVars == <<pic, pstage, pval>>

----------------------------------------------------------------------------
(* Results and options *)

Ok(v)  == [ok |-> TRUE, val |-> v]
Err(e) == [ok |-> FALSE, err |-> e]
None    == <<>>
Some(v) == <<v>>

----------------------------------------------------------------------------
(* Bytes, lengths and integers on the wire *)

\* One element standing for 2^32 bytes (no byte has this value).
Huge == 256

Range(s) == {s[i] : i \in 1..Len(s)}

\* usize -> u32 conversion succeeds (len <= u32::MAX)
FitsU32(s) == Huge \notin Range(s)

to_le_bytes(n) == <<n % 256, (n \div 256) % 256, (n \div 65536) % 256, (n \div 16777216) % 256>>
to_be_bytes(n) == <<(n \div 16777216) % 256, (n \div 65536) % 256, (n \div 256) % 256, n % 256>>
from_le_bytes(b) == b[1] + 256 * b[2] + 65536 * b[3] + 16777216 * b[4]
from_be_bytes(b) == 16777216 * b[1] + 65536 * b[2] + 256 * b[3] + b[4]

\* Cursor::read_exact of n bytes at 0-based offset pos of bs
ReadExact(bs, pos, n) ==
    IF n = 0 THEN Ok(<<>>)
    ELSE IF pos + n <= Len(bs) THEN Ok(SubSeq(bs, pos + 1, pos + n))
    ELSE Err("DataError")

Cont(b) == b >= 128 /\ b <= 191

\* String::from_utf8 accepts bs
RECURSIVE IsUtf8(_)
IsUtf8(bs) ==
    IF bs = <<>> THEN TRUE
    ELSE LET b == bs[1]
             n == Len(bs)
             rest(k) == SubSeq(bs, k + 1, n)
         IN  IF b < 128 THEN IsUtf8(rest(1))
             ELSE IF b >= 194 /\ b <= 223
                  THEN n >= 2 /\ Cont(bs[2]) /\ IsUtf8(rest(2))
             ELSE IF b >= 224 /\ b <= 239
                  THEN /\ n >= 3
                       /\ Cont(bs[2]) /\ Cont(bs[3])
                       /\ (b = 224 => bs[2] >= 160)
                       /\ (b = 237 => bs[2] <= 159)
                       /\ IsUtf8(rest(3))
             ELSE IF b >= 240 /\ b <= 244
                  THEN /\ n >= 4
                       /\ Cont(bs[2]) /\ Cont(bs[3]) /\ Cont(bs[4])
                       /\ (b = 240 => bs[2] >= 144)
                       /\ (b = 244 => bs[2] <= 143)
                       /\ IsUtf8(rest(4))
             ELSE FALSE

\* u8::is_ascii_uppercase / make_ascii_lowercase
is_ascii_uppercase(c) == c >= 65 /\ c <= 90
make_ascii_lowercase(s) == [i \in 1..Len(s) |-> IF is_ascii_uppercase(s[i]) THEN s[i] + 32 ELSE s[i]]

----------------------------------------------------------------------------
(* base64, standard alphabet, canonical padding (BASE64_STANDARD) *)

B64Char(i) ==
    IF i < 26 THEN 65 + i
    ELSE IF i < 52 THEN 97 + (i - 26)
    ELSE IF i < 62 THEN 48 + (i - 52)
    ELSE IF i = 62 THEN 43 ELSE 47

\* the 6-bit value of a character, or -1
B64Val(c) ==
    IF c >= 65 /\ c <= 90 THEN c - 65
    ELSE IF c >= 97 /\ c <= 122 THEN c - 97 + 26
    ELSE IF c >= 48 /\ c <= 57 THEN c - 48 + 52
    ELSE IF c = 43 THEN 62
    ELSE IF c = 47 THEN 63 ELSE -1

RECURSIVE base64_encode(_)
base64_encode(bs) ==
    IF bs = <<>> THEN <<>>
    ELSE LET n == Len(bs)
             w == bs[1] * 65536 + (IF n >= 2 THEN bs[2] * 256 ELSE 0) + (IF n >= 3 THEN bs[3] ELSE 0)
             c1 == B64Char(w \div 262144)
             c2 == B64Char((w \div 4096) % 64)
             c3 == B64Char((w \div 64) % 64)
             c4 == B64Char(w % 64)
         IN  IF n >= 3 THEN <<c1, c2, c3, c4>> \o base64_encode(SubSeq(bs, 4, n))
             ELSE IF n = 2 THEN <<c1, c2, c3, 61>>
             ELSE <<c1, c2, 61, 61>>

RECURSIVE base64_decode(_)
base64_decode(s) ==
    IF s = <<>> THEN Ok(<<>>)
    ELSE IF Len(s) < 4 THEN Err("Base64DecodeError")
    ELSE LET v1 == B64Val(s[1])
             v2 == B64Val(s[2])
             v3 == B64Val(s[3])
             v4 == B64Val(s[4])
             final == Len(s) = 4
         IN  IF v1 < 0 \/ v2 < 0 THEN Err("Base64DecodeError")
             ELSE IF final /\ s[3] = 61 /\ s[4] = 61
                  THEN IF v2 % 16 = 0 THEN Ok(<<v1 * 4 + v2 \div 16>>)
                       ELSE Err("Base64DecodeError")
             ELSE IF v3 < 0 THEN Err("Base64DecodeError")
             ELSE IF final /\ s[4] = 61
                  THEN IF v3 % 4 = 0
                       THEN Ok(<<v1 * 4 + v2 \div 16, (v2 % 16) * 16 + v3 \div 4>>)
                       ELSE Err("Base64DecodeError")
             ELSE IF v4 < 0 THEN Err("Base64DecodeError")
             ELSE LET r == base64_decode(SubSeq(s, 5, Len(s)))
                  IN  IF r.ok
                      THEN Ok(<<v1 * 4 + v2 \div 16, (v2 % 16) * 16 + v3 \div 4,
                                (v3 % 4) * 64 + v4>> \o r.val)
                      ELSE r

----------------------------------------------------------------------------
(* picture.rs *)

\* the ordinals of enum PictureType
PictureTypes == 0..20

\* PictureType::from_u32
from_u32(num) == IF num > 20 THEN Err("InvalidPictureType") ELSE Ok(num)

\* to_bytes without the 16 reserved bytes
to_bytes_no_reserved(p) ==
    IF ~FitsU32(p.mime_type) THEN Err("MimeTooLong")
    ELSE IF ~FitsU32(p.description) THEN Err("DescriptionTooLong")
    ELSE IF ~FitsU32(p.data) THEN Err("DataTooLong")
    ELSE Ok(to_be_bytes(p.picture_type)
            \o to_be_bytes(Len(p.mime_type)) \o p.mime_type
            \o to_be_bytes(Len(p.description)) \o p.description
            \o to_be_bytes(Len(p.data)) \o p.data)

\* Picture::to_bytes
to_bytes(p) ==
    IF ~FitsU32(p.mime_type) THEN Err("MimeTooLong")
    ELSE IF ~FitsU32(p.description) THEN Err("DescriptionTooLong")
    ELSE IF ~FitsU32(p.data) THEN Err("DataTooLong")
    ELSE Ok(to_be_bytes(p.picture_type)
            \o to_be_bytes(Len(p.mime_type)) \o p.mime_type
            \o to_be_bytes(Len(p.description)) \o p.description
            \o [i \in 1..16 |-> 0]
            \o to_be_bytes(Len(p.data)) \o p.data)

\* Picture::from_bytes
from_bytes(data) ==
    LET r1 == ReadExact(data, 0, 4) IN
    IF ~r1.ok THEN r1 ELSE
    LET ty == from_u32(from_be_bytes(r1.val)) IN
    IF ~ty.ok THEN ty ELSE
    LET r2 == ReadExact(data, 4, 4) IN
    IF ~r2.ok THEN r2 ELSE
    LET mime_length == from_be_bytes(r2.val)
        r3 == ReadExact(data, 8, mime_length) IN
    IF ~r3.ok THEN r3 ELSE
    IF ~IsUtf8(r3.val) THEN Err("UTFError") ELSE
    LET p4 == 8 + mime_length
        r4 == ReadExact(data, p4, 4) IN
    IF ~r4.ok THEN r4 ELSE
    LET desc_length == from_be_bytes(r4.val)
        r5 == ReadExact(data, p4 + 4, desc_length) IN
    IF ~r5.ok THEN r5 ELSE
    IF ~IsUtf8(r5.val) THEN Err("UTFError") ELSE
    LET p6 == p4 + 4 + desc_length + 16
        r6 == ReadExact(data, p6, 4) IN
    IF ~r6.ok THEN r6 ELSE
    LET data_length == from_be_bytes(r6.val)
        r7 == ReadExact(data, p6 + 4, data_length) IN
    IF ~r7.ok THEN r7 ELSE
    Ok([picture_type |-> ty.val, mime_type |-> r3.val,
        description |-> r5.val, data |-> r7.val])

\* Picture::to_base64
to_base64(p) ==
    LET bytes == to_bytes(p) IN
    IF ~bytes.ok THEN bytes ELSE Ok(base64_encode(bytes.val))

\* Picture::from_base64
from_base64(data) ==
    LET bytes == base64_decode(data) IN
    IF ~bytes.ok THEN bytes ELSE from_bytes(bytes.val)

----------------------------------------------------------------------------
(* The pictures and picture values of the model.  Encoding and decoding     *)
(* them is computed once, here, and looked up afterwards.                   *)

Picture(ty, data) ==
    [picture_type |-> ty, mime_type |-> <<105>>, description |-> <<>>, data |-> data]

\* two CoverFront pictures, one Other picture
StoredPictures == {Picture(3, <<1>>), Picture(3, <<2>>), Picture(0, <<1>>)}
\* a CoverFront picture whose data is longer than u32::MAX
TooLongPicture == Picture(3, <<Huge>>)

\* "AAAA": base64 of three zero bytes, too short for a picture
BadPictureValue == <<65, 65, 65, 65>>

PictureValues == {to_base64(p).val : p \in StoredPictures} \cup {BadPictureValue}


EncodedPictures == [p \in StoredPictures \cup {TooLongPicture} |-> to_base64(p)]
DecodedValues == [v \in PictureValues |-> from_base64(v)]

\* Picture::to_base64 and Picture::from_base64 as the Tag calls them
Encode(p) == IF p \in DOMAIN EncodedPictures THEN EncodedPictures[p] ELSE to_base64(p)
Decode(v) == IF v \in DOMAIN DecodedValues THEN DecodedValues[v] ELSE from_base64(v)

----------------------------------------------------------------------------
(* utils.rs: LowercaseString *)

\* LowercaseString::from_str
from_str(str) ==
    IF ~(\E i \in 1..Len(str) : is_ascii_uppercase(str[i])) THEN str
    ELSE make_ascii_lowercase(str)

\* from_string without make_ascii_lowercase
from_string_as_is(str) == str

\* LowercaseString::from_string, and From<S: AsRef<str>>
from_string(str) == make_ascii_lowercase(str)

\* LowercaseString::try_from_str
try_from_str(str) ==
    IF \E i \in 1..Len(str) : is_ascii_uppercase(str[i]) THEN None ELSE Some(str)

\* every LowercaseString a caller can build from the text str
LowercaseString(str) ==
    {from_str(str), from_string(str)} \cup Range(try_from_str(str))

----------------------------------------------------------------------------
(* lib.rs: the Tag and its comment map *)

\* "metadata_block_picture"
PICTURE_BLOCK_TAG ==
    <<109, 101, 116, 97, 100, 97, 116, 97, 95, 98, 108, 111, 99, 107, 95,
      112, 105, 99, 116, 117, 114, 101>>

\* HashMap::new, insert, remove
HashMap_new == [k \in {} |-> <<>>]
HashMap_insert(m, k, v) == [x \in DOMAIN m \cup {k} |-> IF x = k THEN v ELSE m[x]]
HashMap_remove(m, k) == [x \in DOMAIN m \ {k} |-> m[x]]

\* comments.entry(key).or_default().push(value)
EntryPush(m, k, v) ==
    HashMap_insert(m, k, IF k \in DOMAIN m THEN Append(m[k], v) ELSE <<v>>)

\* Tag::new: comments is a list of <<key, value>> pairs
RECURSIVE Tag_new_map(_, _)
Tag_new_map(comments, n) ==
    IF n = 0 THEN HashMap_new
    ELSE EntryPush(Tag_new_map(comments, n - 1),
                   make_ascii_lowercase(comments[n][1]), comments[n][2])

Tag_new(vendor, comments) ==
    [vendor |-> vendor, comments |-> Tag_new_map(comments, Len(comments))]

\* Tag::add_one
add_one(t, key, value) == [t EXCEPT !.comments = EntryPush(t.comments, key, value)]

\* Tag::add_many
add_many(t, key, values) ==
    [t EXCEPT !.comments =
        HashMap_insert(t.comments, key,
                       IF key \in DOMAIN t.comments THEN t.comments[key] \o values
                       ELSE values)]

\* Tag::get
get(t, key) == IF key \in DOMAIN t.comments THEN Some(t.comments[key]) ELSE None

\* Tag::get_one
get_one(t, key) ==
    IF key \in DOMAIN t.comments /\ t.comments[key] # <<>>
    THEN Some(t.comments[key][1]) ELSE None

\* Tag::remove_entries: the Tag afterwards and the returned value
remove_entries(t, key) ==
    [tag |-> [t EXCEPT !.comments = HashMap_remove(t.comments, key)],
     ret |-> get(t, key)]

\* Tag::set_entries
set_entries(t, key, values) ==
    [tag |-> [t EXCEPT !.comments = HashMap_insert(t.comments, key, values)],
     ret |-> get(t, key)]

\* Tag::set_vendor
set_vendor(t, new_vendor) == [t EXCEPT !.vendor = new_vendor]

\* Vec::pop in place of Vec::remove(index)
VecRemoveLast(v, index) == SubSeq(v, 1, Len(v) - 1)

\* Vec::remove(index)
VecRemove(v, index) == SubSeq(v, 1, index - 1) \o SubSeq(v, index + 1, Len(v))

\* the positions of the values that decode to a picture of the given type
MatchingPictures(values, picture_type) ==
    {i \in 1..Len(values) :
        LET pic_ == Decode(values[i])
        IN  pic_.ok /\ pic_.val.picture_type = picture_type}

Min(S) == CHOOSE x \in S : \A y \in S : x <= y

\* how many stored values decode to a picture of the given type
CountStored(t, picture_type) ==
    IF PICTURE_BLOCK_TAG \in DOMAIN t.comments
    THEN Cardinality(MatchingPictures(t.comments[PICTURE_BLOCK_TAG], picture_type))
    ELSE 0

\* remove_picture_type that returns the picture it finds and leaves it stored
remove_picture_type_kept(t, picture_type) ==
    IF CountStored(t, picture_type) = 0 THEN [tag |-> t, ret |-> Ok(None)]
    ELSE [tag |-> t,
          ret |-> Ok(Some(Decode(t.comments[PICTURE_BLOCK_TAG][
                     Min(MatchingPictures(t.comments[PICTURE_BLOCK_TAG],
                                          picture_type))]).val))]

\* the loop body at the first match, dropping the rest of the list as well
RemoveAtTruncating(t, index) ==
    [tag |-> [t EXCEPT !.comments[PICTURE_BLOCK_TAG] = SubSeq(@, 1, index - 1)],
     ret |-> Ok(Some(Decode(t.comments[PICTURE_BLOCK_TAG][index]).val))]

\* the body of the loop of Tag::remove_picture_type at the first match:
\* pictures.remove(index); return Ok(Some(pic))
RemoveAt(t, index) ==
    [tag |-> [t EXCEPT !.comments[PICTURE_BLOCK_TAG] = VecRemove(@, index)],
     ret |-> Ok(Some(Decode(t.comments[PICTURE_BLOCK_TAG][index]).val))]

\* Tag::remove_picture_type: the Tag afterwards and the returned value
remove_picture_type(t, picture_type) ==
    IF PICTURE_BLOCK_TAG \notin DOMAIN t.comments THEN [tag |-> t, ret |-> Ok(None)]
    ELSE IF MatchingPictures(t.comments[PICTURE_BLOCK_TAG], picture_type) = {}
         THEN [tag |-> t, ret |-> Ok(None)]
         ELSE RemoveAt(t, Min(MatchingPictures(t.comments[PICTURE_BLOCK_TAG],
                                               picture_type)))

\* the end of Tag::add_picture, given the result of to_base64:
\* the error is returned by ?, or the value is appended under the reserved key
AddEncoded(t, data) ==
    IF ~data.ok THEN [tag |-> t, ret |-> Err("PictureError")]
    ELSE [tag |-> add_one(t, from_string(PICTURE_BLOCK_TAG), data.val), ret |-> Ok(<<>>)]

\* add_picture without the removal of the stored picture of the same type
add_picture_no_remove(t, picture) == AddEncoded(t, Encode(picture))

\* Tag::add_picture: the Tag afterwards and the returned value. The stored
\* picture of the type is removed before the new one is encoded.
add_picture(t, picture) ==
    AddEncoded(remove_picture_type(t, picture.picture_type).tag, Encode(picture))

\* the first match of the loop of Tag::get_picture_type
PictureAt(pictures_, index) == Some(Decode(pictures_[index]).val)

\* Tag::get_picture_type
get_picture_type(t, picture_type) ==
    IF PICTURE_BLOCK_TAG \notin DOMAIN t.comments THEN None
    ELSE IF MatchingPictures(t.comments[PICTURE_BLOCK_TAG], picture_type) = {} THEN None
         ELSE PictureAt(t.comments[PICTURE_BLOCK_TAG],
                        Min(MatchingPictures(t.comments[PICTURE_BLOCK_TAG], picture_type)))

\* Tag::has_pictures
has_pictures(t) == PICTURE_BLOCK_TAG \in DOMAIN t.comments

\* PicturesIterator::next on one stored value (iter.rs): decode it
PicturesIterator_item(value) == Decode(value)

RECURSIVE FilterOk(_)
FilterOk(results) ==
    IF results = <<>> THEN <<>>
    ELSE (IF results[1].ok THEN <<results[1].val>> ELSE <<>>)
         \o FilterOk(Tail(results))

\* Tag::pictures
pictures(t) ==
    IF PICTURE_BLOCK_TAG \notin DOMAIN t.comments THEN <<>>
    ELSE LET v == t.comments[PICTURE_BLOCK_TAG]
         IN  FilterOk([i \in 1..Len(v) |-> PicturesIterator_item(v[i])])

----------------------------------------------------------------------------
(* The Ogg packet stream (ogg crate), as lib.rs uses it.  A page is          *)
(* "OggS", a flags byte (2 = first page of the stream, 4 = last page), the   *)
(* page's granule position, the stream serial, the number of segments, the   *)
(* lacing values and the payload.  Granule position and serial take one byte *)
(* each here; page sequence numbers and checksums are left out.              *)

OggS == <<79, 103, 103, 83>>

RECURSIVE Sum(_)
Sum(s) == IF s = <<>> THEN 0 ELSE s[1] + Sum(Tail(s))

RECURSIVE Concat(_)
Concat(ss) == IF ss = <<>> THEN <<>> ELSE ss[1] \o Concat(Tail(ss))

\* the lacing values of a packet of n bytes
RECURSIVE Lacing(_)
Lacing(n) == IF n >= 255 THEN <<255>> \o Lacing(n - 255) ELSE <<n>>

OggPage(flags, absgp, serial, datas) ==
    LET lacing == Concat([i \in 1..Len(datas) |-> Lacing(Len(datas[i]))])
    IN  OggS \o <<flags, absgp, serial, Len(lacing)>> \o lacing \o Concat(datas)

\* the packets of one page's payload; cur bytes of the current packet are
\* covered by the lacing values already passed
RECURSIVE SplitPackets(_, _, _)
SplitPackets(lacing, payload, cur) ==
    IF lacing = <<>> THEN <<>>
    ELSE IF lacing[1] = 255 THEN SplitPackets(Tail(lacing), payload, cur + 255)
    ELSE LET n == cur + lacing[1]
         IN  <<SubSeq(payload, 1, n)>>
             \o SplitPackets(Tail(lacing), SubSeq(payload, n + 1, Len(payload)), 0)

\* PacketReader over bs from offset pos: the packets up to the end of the
\* data (ok) or up to the first page that cannot be read (~ok).  A packet
\* continued on the next page is not modelled and counts as unreadable.
RECURSIVE ParsePages(_, _)
ParsePages(bs, pos) ==
    IF pos = Len(bs) THEN [packets |-> <<>>, ok |-> TRUE]
    ELSE IF pos + 8 > Len(bs) \/ SubSeq(bs, pos + 1, pos + 4) # OggS
         THEN [packets |-> <<>>, ok |-> FALSE]
    ELSE LET flags == bs[pos + 5]
             absgp == bs[pos + 6]
             serial == bs[pos + 7]
             nsegs == bs[pos + 8]
             lacing == SubSeq(bs, pos + 9, pos + 8 + nsegs)
             end == pos + 8 + nsegs + Sum(lacing)
         IN  IF pos + 8 + nsegs > Len(bs) THEN [packets |-> <<>>, ok |-> FALSE]
             ELSE IF end > Len(bs) \/ (nsegs > 0 /\ lacing[nsegs] = 255)
                  THEN [packets |-> <<>>, ok |-> FALSE]
             ELSE LET datas == SplitPackets(lacing, SubSeq(bs, pos + 8 + nsegs + 1, end), 0)
                      pk == [i \in 1..Len(datas) |->
                                [data |-> datas[i], serial |-> serial, absgp |-> absgp,
                                 last_in_page |-> i = Len(datas),
                                 last_in_stream |-> i = Len(datas) /\ (flags \div 4) % 2 = 1,
                                 endpos |-> end]]
                      rest == ParsePages(bs, end)
                  IN  [packets |-> pk \o rest.packets, ok |-> rest.ok]

\* the n-th call of PacketReader::read_packet on a reader opened at offset 0
read_packet(bs, n) ==
    LET p == ParsePages(bs, 0)
    IN  IF n <= Len(p.packets) THEN Ok(Some(p.packets[n]))
        ELSE IF p.ok THEN Ok(None)
        ELSE Err("ReadError")

\* PacketWriter::new
PacketWriter_new == [pend |-> HashMap_new, started |-> {}]

\* PacketWriter::write_packet: the writer afterwards and the bytes it emits
write_packet(w, data, serial, inf, absgp) ==
    LET before == IF serial \in DOMAIN w.pend THEN w.pend[serial] ELSE <<>>
        pend_ == Append(before, data)
    IN  IF inf = "NormalPacket"
        THEN [writer |-> [w EXCEPT !.pend = HashMap_insert(w.pend, serial, pend_)],
              out |-> <<>>]
        ELSE [writer |-> [pend |-> HashMap_remove(w.pend, serial),
                          started |-> w.started \cup {serial}],
              out |-> OggPage((IF serial \in w.started THEN 0 ELSE 2)
                                + (IF inf = "EndStream" THEN 4 ELSE 0),
                              absgp, serial, pend_)]

\* get_end_info
get_end_info(packet) ==
    IF packet.last_in_stream THEN "EndStream"
    ELSE IF packet.last_in_page THEN "EndPage"
    ELSE "NormalPacket"

----------------------------------------------------------------------------
(* lib.rs: the comment header *)

OpusHead == <<79, 112, 117, 115, 72, 101, 97, 100>>
OpusTags == <<79, 112, 117, 115, 84, 97, 103, 115>>

starts_with(s, prefix) == Len(s) >= Len(prefix) /\ SubSeq(s, 1, Len(prefix)) = prefix

\* the orders in which a HashMap may iterate over its keys
Orders(m) ==
    LET D == DOMAIN m
        n == Cardinality(D)
    IN  {o \in [1..n -> D] : \A i, j \in 1..n : o[i] = o[j] => i = j}

\* format!("{tag}={value}") for every value of every key, keys in the given order
formatted_tags(comments, order) ==
    Concat([i \in 1..Len(order) |->
              [j \in 1..Len(comments[order[i]]) |->
                  order[i] \o <<61>> \o comments[order[i]][j]]])

\* Tag::to_packet_data, the map iterated in the given order
to_packet_data(t, order) ==
    LET tags == formatted_tags(t.comments, order)
    IN  IF ~FitsU32(t.vendor) THEN Err("TooBigError")
        ELSE IF \E i \in 1..Len(tags) : ~FitsU32(tags[i]) THEN Err("TooBigError")
        ELSE Ok(OpusTags
                \o to_le_bytes(Len(t.vendor)) \o t.vendor
                \o to_le_bytes(Len(tags))
                \o Concat([i \in 1..Len(tags) |-> to_le_bytes(Len(tags[i])) \o tags[i]]))

\* str::rsplit_once('=') in place of str::split_once('=')
rsplit_once(comment) ==
    LET eq == {i \in 1..Len(comment) : comment[i] = 61}
    IN  IF eq = {} THEN None
        ELSE LET last_eq == CHOOSE i \in eq : \A j \in eq : j <= i
             IN  Some(<<SubSeq(comment, 1, last_eq - 1),
                        SubSeq(comment, last_eq + 1, Len(comment))>>)

\* str::split_once('=')
split_once(comment) ==
    LET eq == {i \in 1..Len(comment) : comment[i] = 61}
    IN  IF eq = {} THEN None
        ELSE Some(<<SubSeq(comment, 1, Min(eq) - 1),
                    SubSeq(comment, Min(eq) + 1, Len(comment))>>)

\* the comment loop of Tag::read_from: count comments from offset pos
RECURSIVE ReadComments(_, _, _)
ReadComments(data, pos, count) ==
    IF count = 0 THEN Ok(<<>>) ELSE
    LET r1 == ReadExact(data, pos, 4) IN
    IF ~r1.ok THEN r1 ELSE
    LET comment_length == from_le_bytes(r1.val)
        r2 == ReadExact(data, pos + 4, comment_length) IN
    IF ~r2.ok THEN r2 ELSE
    IF ~IsUtf8(r2.val) THEN Err("UTFError") ELSE
    LET pair == split_once(r2.val) IN
    IF pair = None THEN [ok |-> FALSE, err |-> "MalformedComment", line |-> r2.val] ELSE
    LET rest == ReadComments(data, pos + 4 + comment_length, count - 1) IN
    IF ~rest.ok THEN rest ELSE Ok(<<pair[1]>> \o rest.val)

\* Tag::read_from on a reader over the bytes bs
read_from(bs) ==
    LET p1 == read_packet(bs, 1) IN
    IF ~p1.ok THEN p1 ELSE
    IF p1.val = None THEN Err("MissingPacket") ELSE
    IF ~starts_with(p1.val[1].data, OpusHead) THEN Err("NotOpus") ELSE
    LET p2 == read_packet(bs, 2) IN
    IF ~p2.ok THEN p2 ELSE
    IF p2.val = None THEN Err("MissingPacket") ELSE
    LET data == p2.val[1].data
        r1 == ReadExact(data, 8, 4) IN
    IF ~r1.ok THEN r1 ELSE
    LET vendor_length == from_le_bytes(r1.val)
        r2 == ReadExact(data, 12, vendor_length) IN
    IF ~r2.ok THEN r2 ELSE
    IF ~IsUtf8(r2.val) THEN Err("UTFError") ELSE
    LET r3 == ReadExact(data, 12 + vendor_length, 4) IN
    IF ~r3.ok THEN r3 ELSE
    LET comments == ReadComments(data, 16 + vendor_length, from_le_bytes(r3.val)) IN
    IF ~comments.ok THEN comments ELSE
    Ok(Tag_new(r2.val, comments.val))

----------------------------------------------------------------------------
(* Inputs of the Tag operations *)

\* longest list of values a key holds in the model
MaxValues == 2
\* longest comment list given to Tag::new
MaxNew == 2
\* longest list of values given to add_many or set_entries
MaxMany == 1

\* "T", "t" and the picture key
RawKeys == {<<84>>, <<116>>, PICTURE_BLOCK_TAG}
\* "x"
TextValues == {<<120>>}
\* "v" and the empty string
Vendors == {<<118>>, <<>>}

ValuesFor(raw) ==
    IF make_ascii_lowercase(raw) = PICTURE_BLOCK_TAG THEN PictureValues ELSE TextValues

SeqsUpTo(S, n) == UNION {[1..k -> S] : k \in 0..n}

CommentPairs == {<<k, v>> : k \in RawKeys, v \in TextValues \cup PictureValues}

NewComments ==
    {cs \in SeqsUpTo(CommentPairs, MaxNew) :
        \A i \in 1..Len(cs) : cs[i][2] \in ValuesFor(cs[i][1])}

Fits(t, key, n) ==
    (IF key \in DOMAIN t.comments THEN Len(t.comments[key]) ELSE 0) + n <= MaxValues

\* a comment header as found in a file: the lines are raw "TAG=value" texts
HeaderBytes(vendor, lines) ==
    OpusTags \o to_le_bytes(Len(vendor)) \o vendor \o to_le_bytes(Len(lines))
    \o Concat([i \in 1..Len(lines) |-> to_le_bytes(Len(lines[i])) \o lines[i]])

\* a stream of three pages: identification header, comment header, two audio packets
OpusFile(serial, header) ==
    OggPage(2, 0, serial, <<OpusHead \o <<1>>>>)
    \o OggPage(0, 0, serial, <<header>>)
    \o OggPage(4, 9, serial, <<<<1, 2>>, <<3>>>>)

\* "METADATA_BLOCK_PICTURE"
UpperPictureKey ==
    <<77, 69, 84, 65, 68, 65, 84, 65, 95, 66, 76, 79, 67, 75, 95,
      80, 73, 67, 84, 85, 82, 69>>

\* files read into a Tag: "T=x"; two pictures of one type written by another
\* tool, the key in both spellings; a line without '='; an empty file
ReadFiles ==
    {OpusFile(7, HeaderBytes(<<118>>, <<<<84, 61, 120>>>>)),
     OpusFile(7, HeaderBytes(<<118>>,
        <<UpperPictureKey \o <<61>> \o to_base64(Picture(3, <<1>>)).val,
          PICTURE_BLOCK_TAG \o <<61>> \o to_base64(Picture(3, <<2>>)).val>>)),
     OpusFile(7, HeaderBytes(<<118>>, <<<<116, 61, 120>>, <<84, 120>>>>)),
     <<>>}

\* Tag::read_from on each of these files, computed once
ReadResults == [f \in ReadFiles |-> read_from(f)]

\* The record of an operation on the Tag: its name, the picture type and
\* picture given to it, whether it succeeded, what it returned (for
\* remove_picture_type: the returned option and whether the Tag was left as
\* it was), how many pictures of that type the Tag held when it was called,
\* and the same about the operation before it.
NoPrior == [op |-> "none", pt |-> -1, ok |-> TRUE, had |-> 0]
NoOp == [op |-> "none", pt |-> -1, pic |-> None, ok |-> TRUE, ret |-> None, had |-> 0,
         prior |-> NoPrior]
Op(name, pt, p, ok, ret) ==
    [op |-> name, pt |-> pt, pic |-> p, ok |-> ok, ret |-> ret,
     had |-> IF pt < 0 THEN 0 ELSE CountStored(tag, pt),
     prior |-> [op |-> last.op, pt |-> last.pt, ok |-> last.ok, had |-> last.had]]
\* the operations that are not about pictures are recorded alike
Generic == Op("generic", -1, None, TRUE, None)

\* a Cursor over the bytes, or a File holding them just opened
StorageFile(bytes) == [bytes |-> bytes, pos |-> 0, ops |-> <<>>]

IOIdle ==
    /\ target = StorageFile(<<>>)
    /\ target0 = <<>>
    /\ wpc = "idle"
    /\ npackets = 0
    /\ f_out_raw = <<>>
    /\ writer = PacketWriter_new
    /\ wres = None
    /\ rres = None

PicIdle ==
    /\ pic = Picture(0, <<>>)
    /\ pstage = "idle"
    /\ pval = None

----------------------------------------------------------------------------
(* The Tag under its public operations *)

Init ==
    /\ \E vendor \in Vendors, comments \in NewComments : tag = Tag_new(vendor, comments)
    /\ last = NoOp
    /\ IOIdle
    /\ PicIdle

AddOne ==
    \E raw \in RawKeys : \E key \in LowercaseString(raw), value \in ValuesFor(raw) :
        /\ Fits(tag, key, 1)
        /\ tag' = add_one(tag, key, value)
        /\ last' = Generic
        /\ UNCHANGED <<ioVars, picVars>>

AddMany ==
    \E raw \in RawKeys : \E key \in LowercaseString(raw),
                            values \in SeqsUpTo(ValuesFor(raw), MaxMany) :
        /\ Fits(tag, key, Len(values))
        /\ tag' = add_many(tag, key, values)
        /\ last' = Generic
        /\ UNCHANGED <<ioVars, picVars>>

RemoveEntries ==
    \E raw \in RawKeys : \E key \in LowercaseString(raw) :
        /\ tag' = remove_entries(tag, key).tag
        /\ last' = Generic
        /\ UNCHANGED <<ioVars, picVars>>

SetEntries ==
    \E raw \in RawKeys : \E key \in LowercaseString(raw),
                            values \in SeqsUpTo(ValuesFor(raw), MaxMany) :
        /\ tag' = set_entries(tag, key, values).tag
        /\ last' = Generic
        /\ UNCHANGED <<ioVars, picVars>>

SetVendor ==
    \E new_vendor \in Vendors :
        /\ tag' = set_vendor(tag, new_vendor)
        /\ last' = Generic
        /\ UNCHANGED <<ioVars, picVars>>

AddPicture ==
    \E picture \in StoredPictures \cup {TooLongPicture} :
        \E r \in {add_picture(tag, picture)} :
            /\ Fits(r.tag, PICTURE_BLOCK_TAG, 0)
            /\ tag' = r.tag
            /\ last' = Op("add_picture", picture.picture_type, Some(picture), r.ret.ok, None)
            /\ UNCHANGED <<ioVars, picVars>>

RemovePictureType ==
    \E picture_type \in {0, 3, 6} :
        \E r \in {remove_picture_type(tag, picture_type)} :
            /\ tag' = r.tag
            /\ last' = Op("remove_picture_type", picture_type, None, r.ret.ok,
                          [option |-> r.ret.val, same |-> r.tag = tag])
            /\ UNCHANGED <<ioVars, picVars>>

ReadFrom ==
    \E f_in \in ReadFiles :
        LET r == ReadResults[f_in]
        IN  /\ tag' = IF r.ok THEN r.val ELSE tag
            /\ last' = Op("read_from", -1, None, r.ok, None)
            /\ UNCHANGED <<ioVars, picVars>>

Next ==
    \/ AddOne
    \/ AddMany
    \/ RemoveEntries
    \/ SetEntries
    \/ SetVendor
    \/ AddPicture
    \/ RemovePictureType
    \/ ReadFrom

Spec == Init /\ [][Next]_vars

\* C3: no key of the comment map is mapped to an empty list of values.
C3_NoEmptyList == \A k \in DOMAIN tag.comments : tag.comments[k] # <<>>

LookupKeys == RawKeys \cup {UpperPictureKey}

\* C4: no stored key holds an ASCII uppercase letter, and get, get_one and
\* remove_entries give the same result for two keys that differ only in
\* ASCII case.
C4_LowercaseKeys ==
    /\ \A k \in DOMAIN tag.comments : \A i \in 1..Len(k) : ~is_ascii_uppercase(k[i])
    /\ \A k1, k2 \in LookupKeys :
          make_ascii_lowercase(k1) = make_ascii_lowercase(k2) =>
             \A l1 \in LowercaseString(k1), l2 \in LowercaseString(k2) :
                /\ get(tag, l1) = get(tag, l2)
                /\ get_one(tag, l1) = get_one(tag, l2)
                /\ remove_entries(tag, l1) = remove_entries(tag, l2)

\* a file spelling the picture key in uppercase was read, and the lookup by
\* the uppercase spelling finds both of its values
C4_Witness ==
    /\ last.op = "read_from" /\ last.ok
    /\ get(tag, from_string(UpperPictureKey)) # None
    /\ Len(get(tag, from_string(UpperPictureKey))[1]) = 2

OfType(ps, picture_type) == {i \in 1..Len(ps) : ps[i].picture_type = picture_type}

\* add_picture(p1) then add_picture(p2), same picture type, both succeeded
TwoAdds ==
    /\ last.op = "add_picture" /\ last.ok
    /\ last.prior.op = "add_picture" /\ last.prior.ok
    /\ last.prior.pt = last.pt

ReplacedByLast ==
    /\ get_picture_type(tag, last.pt) = last.pic
    /\ Cardinality(OfType(pictures(tag), last.pt)) = 1

\* C5 as claimed: after two successful add_picture calls with pictures of one
\* type T, on any Tag, get_picture_type(T) returns the second picture and
\* pictures() holds exactly one entry of type T.
C5_AnyTag == TwoAdds => ReplacedByLast

\* C5 as amended: the same, for a Tag that held at most one picture of type T
\* before the two calls.
C5_AtMostOneBefore == (TwoAdds /\ last.prior.had <= 1) => ReplacedByLast

\* two adds of one type in a row, on a Tag that already held one picture of it
C5_Witness == TwoAdds /\ last.prior.had = 1 /\ ReplacedByLast

TwoRemoves ==
    /\ last.op = "remove_picture_type"
    /\ last.prior.op = "remove_picture_type"
    /\ last.prior.pt = last.pt

RemoveReturns ==
    last.op = "remove_picture_type" =>
        /\ last.ok
        /\ last.had >= 1 =>
              /\ last.ret.option # None
              /\ last.ret.option[1].picture_type = last.pt
        /\ last.had = 0 => (last.ret.option = None /\ last.ret.same)

\* C7 as claimed: remove_picture_type(T) returns the picture when one of type
\* T is stored, returns Ok(None) and removes nothing when none is stored, and
\* called a second time in a row returns Ok(None), on any Tag.
C7_AnyTag == RemoveReturns /\ (TwoRemoves => last.ret.option = None)

\* C7 as amended: the second call returns Ok(None) when the Tag held at most
\* one picture of type T before the first call.
C7_AtMostOneBefore ==
    RemoveReturns /\ ((TwoRemoves /\ last.prior.had <= 1) => last.ret.option = None)

\* the stored picture of a type was removed and the call repeated
C7_Witness == TwoRemoves /\ last.prior.had = 1 /\ last.ret.option = None

\* C8: has_pictures() is true exactly when at least one value is stored under
\* the picture key.
C8_HasPictures ==
    has_pictures(tag) <=>
        (PICTURE_BLOCK_TAG \in DOMAIN tag.comments /\ tag.comments[PICTURE_BLOCK_TAG] # <<>>)

\* the value decodes to a picture of the type
DecodesTo(value, picture_type) ==
    Decode(value).ok /\ Decode(value).val.picture_type = picture_type

\* the list without its i-th value, the others in their order
Without(values, i) ==
    [k \in 1..(Len(values) - 1) |-> IF k < i THEN values[k] ELSE values[k + 1]]

\* before and after are the Tag around one call of remove_picture_type with
\* the picture type, which returned ret: nothing but the first value of that
\* type is gone, and it is what was returned
RemovedFirstOnly(before, after, picture_type, ok, ret) ==
    /\ ok
    /\ after.vendor = before.vendor
    /\ DOMAIN after.comments = DOMAIN before.comments
    /\ \A k \in DOMAIN before.comments :
          k # PICTURE_BLOCK_TAG => after.comments[k] = before.comments[k]
    /\ IF \/ PICTURE_BLOCK_TAG \notin DOMAIN before.comments
          \/ \A i \in 1..Len(before.comments[PICTURE_BLOCK_TAG]) :
                ~DecodesTo(before.comments[PICTURE_BLOCK_TAG][i], picture_type)
       THEN after = before /\ ret.option = None
       ELSE \E i \in 1..Len(before.comments[PICTURE_BLOCK_TAG]) :
               /\ DecodesTo(before.comments[PICTURE_BLOCK_TAG][i], picture_type)
               /\ \A j \in 1..(i - 1) :
                     ~DecodesTo(before.comments[PICTURE_BLOCK_TAG][j], picture_type)
               /\ after.comments[PICTURE_BLOCK_TAG] =
                     Without(before.comments[PICTURE_BLOCK_TAG], i)
               /\ ret.option = Some(Decode(before.comments[PICTURE_BLOCK_TAG][i]).val)

C15_WitnessUndecodable ==
    /\ last.op = "remove_picture_type"
    /\ last.ret.option # None
    /\ tag.comments[PICTURE_BLOCK_TAG] = <<BadPictureValue>>

\* C16: when add_picture returns an error, the Tag is as it was before the
\* call: it stores as many pictures of the type of the picture as before.
C16_AddPictureAtomic ==
    (last.op = "add_picture" /\ ~last.ok) => CountStored(tag, last.pt) = last.had

----------------------------------------------------------------------------
(* A Tag without pictures under add_picture and remove_picture_type only *)

NoPictureValues(t) ==
    PICTURE_BLOCK_TAG \in DOMAIN t.comments => t.comments[PICTURE_BLOCK_TAG] = <<>>

InitPictureOps ==
    /\ \E vendor \in Vendors, comments \in NewComments :
          \E t \in {Tag_new(vendor, comments),
                    set_entries(Tag_new(vendor, comments),
                                from_string(PICTURE_BLOCK_TAG), <<>>).tag} :
             /\ NoPictureValues(t)
             /\ tag = t
    /\ last = NoOp
    /\ IOIdle
    /\ PicIdle

NextPictureOps == AddPicture \/ RemovePictureType

SpecPictureOps == InitPictureOps /\ [][NextPictureOps]_vars

\* C6: at most one stored picture per picture type.
C6_OnePerType == \A picture_type \in PictureTypes : CountStored(tag, picture_type) <= 1

\* a picture replaced the stored one of its type while another type is stored
C6_Witness ==
    /\ last.op = "add_picture" /\ last.ok /\ last.had = 1
    /\ CountStored(tag, 3) = 1 /\ CountStored(tag, 0) = 1

----------------------------------------------------------------------------
(* lib.rs: StorageFile, as write_to uses it *)

\* Seek::seek(SeekFrom::Start(0))
seek_start(f) == [f EXCEPT !.pos = 0, !.ops = Append(@, "seek")]

\* set_len that leaves the length as it is
set_len_noop(f, new_size) == [f EXCEPT !.ops = Append(@, "set_len")]

\* StorageFile::set_len: Vec::resize(new_size, 0), File::set_len
set_len(f, new_size) ==
    [f EXCEPT !.bytes = IF new_size <= Len(f.bytes) THEN SubSeq(f.bytes, 1, new_size)
                        ELSE f.bytes \o [i \in 1..(new_size - Len(f.bytes)) |-> 0],
              !.ops = Append(@, "set_len")]

\* Write::write of buf at the current position
write_at(f, buf) ==
    [f EXCEPT !.bytes = SubSeq(f.bytes, 1, f.pos) \o buf
                        \o SubSeq(f.bytes, f.pos + Len(buf) + 1, Len(f.bytes)),
              !.pos = f.pos + Len(buf),
              !.ops = Append(@, "write_all")]

----------------------------------------------------------------------------
(* Tag::write_to, step by step, and Tag::read_from on the result *)

\* longest comment list of a Tag given to write_to
MaxHeader == 2

\* "T=x", "t=y=z", a key holding '=', a value longer than u32::MAX, a picture
WritePairs ==
    {<<<<84>>, <<120>>>>, <<<<116>>, <<121, 61, 122>>>>, <<<<97, 61, 98>>, <<99>>>>,
     <<<<107>>, <<Huge>>>>,
     <<PICTURE_BLOCK_TAG, to_base64(Picture(3, <<1>>)).val>>}

WriteVendors == {<<118>>, <<>>, <<Huge>>}

\* the Tags written: built by Tag::new, some then given an empty list by set_entries
WriteTags ==
    LET made == {Tag_new(v, cs) : v \in WriteVendors, cs \in SeqsUpTo(WritePairs, MaxHeader)}
    IN  made \cup {set_entries(t, from_string(<<84>>), <<>>).tag : t \in made}

\* a vendor string of 40 bytes
LongVendor == [i \in 1..40 |-> 101]

\* more targets: a stream that ends with its comment header; one whose two
\* headers share a page; an Ogg stream of three packets that is not Opus
\* (its first packet begins with "\x01vorbis")
OtherTargets ==
    {OggPage(2, 0, 7, <<OpusHead \o <<1>>>>)
        \o OggPage(4, 0, 7, <<HeaderBytes(<<101>>, <<>>)>>),
     OggPage(2, 0, 7, <<OpusHead \o <<1>>, HeaderBytes(<<101>>, <<>>)>>)
        \o OggPage(4, 9, 7, <<<<1, 2>>, <<3>>>>),
     OggPage(2, 0, 7, <<<<1, 118, 111, 114, 98, 105, 115>>>>)
        \o OggPage(0, 0, 7, <<<<3, 118, 111, 114, 98, 105, 115>>>>)
        \o OggPage(4, 9, 7, <<<<1, 2>>>>)}

\* the targets: a minimal stream; one with a long comment header and another
\* serial; one whose comment header shares its page with the audio packets;
\* one that ends after the first packet; an empty one; one whose third page
\* is damaged; one that is no Ogg stream
WriteTargets ==
    {OpusFile(7, HeaderBytes(<<101>>, <<>>)),
     OpusFile(9, HeaderBytes(LongVendor, <<<<84, 61, 120>>, <<84, 61, 120>>>>)),
     OggPage(2, 0, 7, <<OpusHead \o <<1>>>>)
        \o OggPage(4, 9, 7, <<HeaderBytes(<<101>>, <<>>), <<1, 2>>, <<3>>>>),
     OggPage(2, 0, 7, <<OpusHead \o <<1>>>>),
     <<>>,
     OggPage(2, 0, 7, <<OpusHead \o <<1>>>>)
        \o OggPage(0, 0, 7, <<HeaderBytes(<<101>>, <<>>)>>) \o <<79, 103, 103>>,
     <<1, 2, 3>>}
    \cup OtherTargets

InitIO ==
    /\ tag \in WriteTags
    /\ last = NoOp
    /\ \E bytes \in WriteTargets : target = StorageFile(bytes)
    /\ target0 = <<>>
    /\ wpc = "idle"
    /\ npackets = 0
    /\ f_out_raw = <<>>
    /\ writer = PacketWriter_new
    /\ wres = None
    /\ rres = None
    /\ PicIdle

\* write_to fails before it touches the target
Fail(e) ==
    /\ wres' = Some(Err(e))
    /\ wpc' = "failed"
    /\ UNCHANGED <<target, f_out_raw, writer, npackets>>

\* an io error from seek, set_len or write_all
FailLate ==
    /\ wres' = Some(Err("DataError"))
    /\ wpc' = "failed_late"
    /\ UNCHANGED <<f_out_raw, writer, npackets>>

\* writer.write_packet(...) into the in-memory buffer after reading packet
Copy(packet, data, inf, next) ==
    LET w == write_packet(writer, data, packet.serial, inf, packet.absgp)
    IN  /\ writer' = w.writer
        /\ f_out_raw' = f_out_raw \o w.out
        /\ npackets' = npackets + 1
        /\ target' = [target EXCEPT !.pos = packet.endpos]
        /\ wpc' = next
        /\ wres' = wres

\* the call: f_out_raw, cursor, reader and writer are set up
WriteToCall ==
    /\ wpc = "idle"
    /\ target0' = target.bytes
    /\ f_out_raw' = <<>>
    /\ writer' = PacketWriter_new
    /\ npackets' = 0
    /\ wpc' = "first"
    /\ UNCHANGED <<target, wres, rres, tagVars, picVars>>

\* the first packet is copied
WriteFirstPacket ==
    /\ wpc = "first"
    /\ LET r == read_packet(target.bytes, 1)
       IN  IF ~r.ok THEN Fail("ReadError")
           ELSE IF r.val = None THEN Fail("MissingPacket")
           ELSE Copy(r.val[1], r.val[1].data, get_end_info(r.val[1]), "header")
    /\ UNCHANGED <<target0, rres, tagVars, picVars>>

\* the header step of a write_to that empties the target before it serializes
WriteHeaderPacketTruncating ==
    /\ wpc = "header"
    /\ LET r == read_packet(target.bytes, 2)
       IN  IF ~r.ok THEN Fail("ReadError")
           ELSE IF r.val = None THEN Fail("MissingPacket")
           ELSE \E order \in Orders(tag.comments) :
                   LET new_pack_data == to_packet_data(tag, order)
                   IN  IF ~new_pack_data.ok
                       THEN /\ wres' = Some(Err("TooBigError"))
                            /\ wpc' = "failed"
                            /\ target' = set_len(seek_start(target), 0)
                            /\ UNCHANGED <<f_out_raw, writer, npackets>>
                       ELSE Copy(r.val[1], new_pack_data.val, "EndPage", "rest")
    /\ UNCHANGED <<target0, rres, tagVars, picVars>>

\* the header step of a write_to that gives the serialized Tag the boundary
\* marker of the packet it replaces
WriteHeaderPacketKeepingMarker ==
    /\ wpc = "header"
    /\ LET r == read_packet(target.bytes, 2)
       IN  IF ~r.ok THEN Fail("ReadError")
           ELSE IF r.val = None THEN Fail("MissingPacket")
           ELSE \E order \in Orders(tag.comments) :
                   LET new_pack_data == to_packet_data(tag, order)
                   IN  IF ~new_pack_data.ok THEN Fail("TooBigError")
                       ELSE Copy(r.val[1], new_pack_data.val, get_end_info(r.val[1]), "rest")
    /\ UNCHANGED <<target0, rres, tagVars, picVars>>

\* the comment header is read and the serialized Tag written in its place
WriteHeaderPacket ==
    /\ wpc = "header"
    /\ LET r == read_packet(target.bytes, 2)
       IN  IF ~r.ok THEN Fail("ReadError")
           ELSE IF r.val = None THEN Fail("MissingPacket")
           ELSE \E order \in Orders(tag.comments) :
                   LET new_pack_data == to_packet_data(tag, order)
                   IN  IF ~new_pack_data.ok THEN Fail("TooBigError")
                       ELSE Copy(r.val[1], new_pack_data.val, "EndPage", "rest")
    /\ UNCHANGED <<target0, rres, tagVars, picVars>>

\* one turn of the loop over the remaining packets
WriteNextPacket ==
    /\ wpc = "rest"
    /\ LET r == read_packet(target.bytes, npackets + 1)
       IN  IF ~r.ok THEN Fail("ReadError")
           ELSE IF r.val = None
                THEN /\ wpc' = "seek"
                     /\ target' = [target EXCEPT !.pos = Len(target.bytes)]
                     /\ UNCHANGED <<f_out_raw, writer, npackets, wres>>
           ELSE Copy(r.val[1], r.val[1].data, get_end_info(r.val[1]), "rest")
    /\ UNCHANGED <<target0, rres, tagVars, picVars>>

\* f_in.seek(SeekFrom::Start(0))
WriteSeek ==
    /\ wpc = "seek"
    /\ \/ /\ target' = seek_start(target)
          /\ wpc' = "set_len"
          /\ UNCHANGED <<f_out_raw, writer, npackets, wres>>
       \/ /\ target' = target
          /\ FailLate
    /\ UNCHANGED <<target0, rres, tagVars, picVars>>

\* f_in.set_len(f_out_raw.len())
WriteSetLen ==
    /\ wpc = "set_len"
    /\ \/ /\ target' = set_len(target, Len(f_out_raw))
          /\ wpc' = "write_all"
          /\ UNCHANGED <<f_out_raw, writer, npackets, wres>>
       \/ /\ target' = target
          /\ FailLate
    /\ UNCHANGED <<target0, rres, tagVars, picVars>>

\* f_in.write_all(&f_out_raw): all of the buffer, or an error after part of it
WriteAll ==
    /\ wpc = "write_all"
    /\ \/ /\ target' = write_at(target, f_out_raw)
          /\ wpc' = "done"
          /\ wres' = Some(Ok(<<>>))
          /\ UNCHANGED <<f_out_raw, writer, npackets>>
       \/ /\ \E n \in {0, Len(f_out_raw) \div 2} :
                target' = write_at(target, SubSeq(f_out_raw, 1, n))
          /\ FailLate
    /\ UNCHANGED <<target0, rres, tagVars, picVars>>

\* Tag::read_from on the target, read from its start, after write_to returned Ok
ReadBack ==
    /\ wpc = "done"
    /\ rres' = Some(read_from(target.bytes))
    /\ wpc' = "read"
    /\ UNCHANGED <<target, target0, npackets, f_out_raw, writer, wres, tagVars, picVars>>

NextIO ==
    \/ WriteToCall
    \/ WriteFirstPacket
    \/ WriteHeaderPacket
    \/ WriteNextPacket
    \/ WriteSeek
    \/ WriteSetLen
    \/ WriteAll
    \/ ReadBack

SpecIO == InitIO /\ [][NextIO]_vars

\* a stream Tag::read_from accepts whose second packet is a comment header
ValidOpus(bs) ==
    /\ read_from(bs).ok
    /\ starts_with(read_packet(bs, 2).val[1].data, OpusTags)

\* C1: after write_to into a valid stream, read_from succeeds and gives the
\* vendor string and, for every key, the list of values of the Tag written.
C1_RoundTrip ==
    (wpc = "read" /\ ValidOpus(target0)) =>
        /\ rres[1].ok
        /\ rres[1].val.vendor = tag.vendor
        /\ rres[1].val.comments = tag.comments

\* C9: when write_to fails before the final write step, the target holds the
\* bytes it held at the call, and no seek, set_len or write was made on it.
C9_FailureLeavesTarget ==
    wpc = "failed" => (target.bytes = target0 /\ target.ops = <<>>)

\* the Tag could not be serialized, after the first packet was copied
C9_Witness ==
    /\ wpc = "failed"
    /\ wres = Some(Err("TooBigError"))
    /\ f_out_raw # <<>>
    /\ target0 # <<>>

\* every packet of the target has been read and written to the buffer
Assembled ==
    /\ ParsePages(target0, 0).ok
    /\ npackets = Len(ParsePages(target0, 0).packets)
    /\ writer.pend = HashMap_new
    /\ ParsePages(f_out_raw, 0).ok
    /\ Len(ParsePages(f_out_raw, 0).packets) = npackets

IsPrefix(s, t) == Len(s) <= Len(t) /\ SubSeq(t, 1, Len(s)) = s

\* C10: the target is untouched until the whole stream is assembled, the
\* calls on it are seek, set_len, write_all in this order, and after a
\* successful call it holds exactly the assembled stream.
C10_ReplacedAsAWhole ==
    /\ target.ops = <<>> => (wpc # "idle" => target.bytes = target0)
    /\ target.ops # <<>> => (Assembled /\ IsPrefix(target.ops, <<"seek", "set_len", "write_all">>))
    /\ wpc = "done" =>
          /\ target.ops = <<"seek", "set_len", "write_all">>
          /\ target.bytes = f_out_raw

\* a successful write_to whose result is shorter than the target was
C10_Witness ==
    /\ wpc = "done"
    /\ Len(target.bytes) < Len(target0)
    /\ target.bytes = f_out_raw

\* the packets a PacketReader finds in a stream
PacketsOf(bs) == ParsePages(bs, 0).packets

\* two packets alike in data, stream serial, granule position and marker
SamePacket(p, q) ==
    /\ p.data = q.data
    /\ p.serial = q.serial
    /\ p.absgp = q.absgp
    /\ get_end_info(p) = get_end_info(q)

\* write_to has left its loop: the rewritten stream is complete
StreamWritten == wpc \in {"seek", "set_len", "write_all", "done", "failed_late", "read"}

\* C11: the stream write_to produces has the packets of the input stream in
\* the same number and order; the first packet and every packet from the
\* third on have the data, stream serial, granule position and boundary
\* marker of the original; the second holds the serialized Tag, keeps the
\* original serial and granule position and is marked end of page.
C11_PacketsCopied ==
    StreamWritten =>
        /\ ParsePages(f_out_raw, 0).ok
        /\ Len(PacketsOf(f_out_raw)) = Len(PacketsOf(target0))
        /\ \A i \in 1..Len(PacketsOf(target0)) :
              i # 2 => SamePacket(PacketsOf(f_out_raw)[i], PacketsOf(target0)[i])
        /\ \E order \in Orders(tag.comments) :
              /\ to_packet_data(tag, order).ok
              /\ PacketsOf(f_out_raw)[2].data = to_packet_data(tag, order).val
        /\ PacketsOf(f_out_raw)[2].serial = PacketsOf(target0)[2].serial
        /\ PacketsOf(f_out_raw)[2].absgp = PacketsOf(target0)[2].absgp
        /\ get_end_info(PacketsOf(f_out_raw)[2]) = "EndPage"

\* a stream of four packets rewritten whose comment header was followed by
\* other packets on its page
C11_Witness ==
    /\ wpc = "done"
    /\ Len(PacketsOf(target0)) = 4
    /\ get_end_info(PacketsOf(target0)[2]) = "NormalPacket"
    /\ get_end_info(PacketsOf(f_out_raw)[2]) = "EndPage"

\* a stream rewritten whose comment header was its last packet
C11_WitnessEndStream ==
    /\ wpc = "done"
    /\ get_end_info(PacketsOf(target0)[2]) = "EndStream"

\* the stream begins with an Opus identification header
IsOpus(bs) ==
    /\ PacketsOf(bs) # <<>>
    /\ starts_with(PacketsOf(bs)[1].data, OpusHead)

\* C12: when the target does not contain an Opus stream, write_to returns an
\* error and the target keeps the bytes it held at the call.
C12_NotOpusRejected ==
    (wpc # "idle" /\ ~IsOpus(target0)) =>
        /\ target.bytes = target0
        /\ wres # Some(Ok(<<>>))

----------------------------------------------------------------------------
(* Tag::read_from on files as other programs may have written them *)

\* longest list of comments in the header of a file read
MaxLines == 2

\* the first 8 bytes of the second packet: "OpusTags", "OpusHead", "OpusTagz"
Magics == {OpusTags, OpusHead, <<79, 112, 117, 115, 84, 97, 103, 122>>}

\* comment texts: "T=x", "t=y=z", "Tx", "=" and the empty text
Lines == {<<84, 61, 120>>, <<116, 61, 121, 61, 122>>, <<84, 120>>, <<61>>, <<>>}

\* what a file is made of: 8 bytes, a vendor string and a list of comments
HeaderInputs ==
    {<<magic, vendor, lines>> :
        magic \in Magics, vendor \in Vendors, lines \in SeqsUpTo(Lines, MaxLines)}

\* the stream whose second packet is the 8 bytes followed by the vendor
\* string and the comments, framed as in a comment header
HeaderFile(h) ==
    OpusFile(7, h[1] \o SubSeq(HeaderBytes(h[2], h[3]), 9, Len(HeaderBytes(h[2], h[3]))))

HeaderFiles == [h \in HeaderInputs |-> HeaderFile(h)]

\* other files: a comment header cut short after the 8 bytes; a comment count
\* larger than the comments present; a stream that is not Opus
BrokenFiles ==
    {OpusFile(7, OpusTags),
     OpusFile(7, OpusTags \o to_le_bytes(0) \o to_le_bytes(2)
                  \o to_le_bytes(3) \o <<84, 61, 120>>),
     OggPage(2, 0, 7, <<<<1, 118, 111, 114, 98, 105, 115>>>>)
        \o OggPage(4, 0, 7, <<HeaderBytes(<<>>, <<>>)>>)}

InitRead ==
    /\ tag = Tag_new(<<>>, <<>>)
    /\ last = NoOp
    /\ \E bytes \in {HeaderFiles[h] : h \in HeaderInputs} \cup BrokenFiles :
          target = StorageFile(bytes)
    /\ target0 = <<>>
    /\ wpc = "idle"
    /\ npackets = 0
    /\ f_out_raw = <<>>
    /\ writer = PacketWriter_new
    /\ wres = None
    /\ rres = None
    /\ PicIdle

\* Tag::read_from(f_in) on a reader over the file
ReadFromCall ==
    /\ wpc = "idle"
    /\ rres' = Some(read_from(target.bytes))
    /\ wpc' = "read"
    /\ UNCHANGED <<target, target0, npackets, f_out_raw, writer, wres, tagVars, picVars>>

NextRead == ReadFromCall

SpecRead == InitRead /\ [][NextRead]_vars

\* C13: read_from returns an error when the first 8 bytes of the second
\* packet are not "OpusTags".
C13_MagicRequired ==
    (/\ wpc = "read"
     /\ Len(PacketsOf(target.bytes)) >= 2
     /\ ~starts_with(PacketsOf(target.bytes)[2].data, OpusTags)) => ~rres[1].ok

\* the comments without '='
Malformed(lines) == {i \in 1..Len(lines) : \A k \in 1..Len(lines[i]) : lines[i][k] # 61}

\* the text before the first '=' of a comment, and the text after it
KeyValue(line) ==
    LET eq == CHOOSE i \in 1..Len(line) : line[i] = 61 /\ \A j \in 1..(i - 1) : line[j] # 61
    IN  <<[k \in 1..(eq - 1) |-> line[k]], [k \in 1..(Len(line) - eq) |-> line[eq + k]]>>

\* what read_from is to return for a header of these comments
ParsedAs(vendor, lines, r) ==
    IF Malformed(lines) = {}
    THEN /\ r.ok
         /\ r.val = Tag_new(vendor, [i \in 1..Len(lines) |-> KeyValue(lines[i])])
    ELSE /\ ~r.ok
         /\ r.err = "MalformedComment"
         /\ \E i \in Malformed(lines) :
               /\ \A j \in Malformed(lines) : i <= j
               /\ r.line = lines[i]

\* C14: read_from splits each comment at its first '=' (the value keeps any
\* later '='); when a comment has no '=' the read fails with
\* MalformedComment carrying the text of that comment (the first such
\* comment), whatever the comments before it.
C14_SplitOnFirstEquals ==
    wpc = "read" =>
        \A h \in HeaderInputs :
            (h[1] = OpusTags /\ target.bytes = HeaderFiles[h]) => ParsedAs(h[2], h[3], rres[1])

\* "t=y=z" was read and then "Tx", which made the read fail
C14_Witness ==
    /\ wpc = "read"
    /\ target.bytes = HeaderFiles[<<OpusTags, <<118>>, <<<<116, 61, 121, 61, 122>>, <<84, 120>>>>>>]
    /\ ~rres[1].ok
    /\ rres[1].err = "MalformedComment"
    /\ rres[1].line = <<84, 120>>

\* "t=y=z" was read into the key "t" with the value "y=z"
C14_WitnessLaterEquals ==
    /\ wpc = "read"
    /\ rres[1].ok
    /\ <<116>> \in DOMAIN rres[1].val.comments
    /\ rres[1].val.comments[<<116>>] = <<<<121, 61, 122>>>>

----------------------------------------------------------------------------
(* The picture codec on its own: encode a picture, decode the result *)

\* "image/png" shortened to "i/p", and a two-byte UTF-8 character
MimeInputs == {<<>>, <<105, 47, 112>>, <<195, 169>>}
DescInputs == {<<>>, <<100>>}
DataInputs == {<<>>, <<1, 2, 3>>, <<0, 255>>, <<255>>}
HugeInputs == {<<Huge>>}

PictureInputs ==
    [picture_type : PictureTypes, mime_type : MimeInputs,
     description : DescInputs, data : DataInputs]
    \cup [picture_type : {3}, mime_type : MimeInputs \cup HugeInputs,
          description : DescInputs \cup HugeInputs, data : DataInputs \cup HugeInputs]

InitPic ==
    /\ pic \in PictureInputs
    /\ pstage = "new"
    /\ pval = None
    /\ tag = Tag_new(<<>>, <<>>)
    /\ last = NoOp
    /\ IOIdle

PicToBytes ==
    /\ pstage = "new"
    /\ pval' = to_bytes(pic)
    /\ pstage' = "bytes"
    /\ UNCHANGED <<pic, tagVars, ioVars>>

PicFromBytes ==
    /\ pstage = "bytes"
    /\ pval.ok
    /\ pval' = from_bytes(pval.val)
    /\ pstage' = "decoded"
    /\ UNCHANGED <<pic, tagVars, ioVars>>

PicToBase64 ==
    /\ pstage = "new"
    /\ pval' = to_base64(pic)
    /\ pstage' = "base64"
    /\ UNCHANGED <<pic, tagVars, ioVars>>

PicFromBase64 ==
    /\ pstage = "base64"
    /\ pval.ok
    /\ pval' = from_base64(pval.val)
    /\ pstage' = "decoded64"
    /\ UNCHANGED <<pic, tagVars, ioVars>>

NextPic == PicToBytes \/ PicFromBytes \/ PicToBase64 \/ PicFromBase64

SpecPic == InitPic /\ [][NextPic]_vars

PicFits(p) == FitsU32(p.mime_type) /\ FitsU32(p.description) /\ FitsU32(p.data)

\* C2: a picture whose fields fit 32-bit lengths encodes, and decoding the
\* encoding (raw or base64) succeeds and gives back all four fields.
C2_PictureRoundTrip ==
    /\ (pstage \in {"bytes", "base64"} /\ PicFits(pic)) => pval.ok
    /\ pstage \in {"decoded", "decoded64"} => (pval.ok /\ pval.val = pic)

\* a CoverFront picture with an empty description and data came back through base64
C2_Witness ==
    /\ pstage = "decoded64"
    /\ pic.picture_type = 3
    /\ pic.description = <<>>
    /\ pic.data = <<1, 2, 3>>
    /\ pval.ok

====
